---- MODULE Spec2Model ----
(***************************************************************************)
(* Model of make_lint.py: the LintChecker orchestrator and main().         *)
(*                                                                         *)
(* Texts (Python str) are sequences of fragments; a fragment is a literal  *)
(* piece of a message, a label, or one character of captured output.      *)
(* Dicts are TLA+ functions with a string domain (records); the ordered    *)
(* dict results["checks"] is a sequence of [name, result] entries in       *)
(* insertion order.  An absent value (empty dict, unset local) is <<>>.    *)
(***************************************************************************)
EXTENDS Integers, Sequences, FiniteSets, TLC

\* ------------------------------------------------------------------ bounds
\* At most MaxFaults things go wrong in one run: a path the program looks for
\* is absent, or an external command ends other than "exit 0, empty stderr".
MaxFaults == 2
\* Longest checks mapping handed to analyze_results in SpecAnalyze.
MaxChecks == 4

\* ------------------------------------------------------- program constants
\* subprocess.run(..., timeout=300).  The model has no clock: running past
\* this limit is the outcome "timeout" of a command.
TimeoutSeconds == 300
\* result['stderr'][:200]
StderrSnippetLen == 200

\* ------------------------------------------------------------------- texts
Min(a, b) == IF a <= b THEN a ELSE b

\* ' '.join(command)
RECURSIVE Join(_, _)
Join(sep, words) ==
    IF Len(words) = 0 THEN <<>>
    ELSE IF Len(words) = 1 THEN <<words[1]>>
    ELSE <<words[1], sep>> \o Join(sep, Tail(words))

\* text[:n].  Exact for captured output (one fragment per character); the
\* composed messages are shorter than any n the program uses and are kept whole.
Slice(text, n) == SubSeq(text, 1, Min(Len(text), n))

\* the fragment occurs in the text
Contains(text, fragment) == \E i \in 1..Len(text) : text[i] = fragment

\* Python truthiness of a str
Truthy(text) == Len(text) > 0

\* dict.get(key, default)
Get(d, key, default) == IF key \in DOMAIN d THEN d[key] ELSE default

\* isinstance(result, dict): every value stored in results["checks"] is a dict
IsDict(result) == \A k \in DOMAIN result : k \in STRING

RECURSIVE Gcd(_, _)
Gcd(a, b) == IF b = 0 THEN a ELSE Gcd(b, a % b)

\* A float is kept as the exact fraction <<numerator, denominator>> in lowest
\* terms (the rounding error of the double arithmetic is not modelled).
Fraction(n, d) == LET g == Gcd(n, d) IN <<n \div g, d \div g>>

\* f"{x:.1f}": x rounded to tenths, ties to even; <<integer part, tenth digit>>
Format1f(x) ==
    LET n == x[1] * 10
        q == n \div x[2]
        r == n % x[2]
        t == IF 2 * r > x[2] THEN q + 1
             ELSE IF 2 * r = x[2] THEN q + (q % 2)
             ELSE q
    IN  <<t \div 10, t % 10>>

\* -------------------------------------------------------------- file system
package_json == "package.json"
node_modules == "node_modules"

\* check_file_structure: required_paths
required_paths ==
    << "client/src", "server", "worker", "shared", "package.json",
       "tsconfig.json", "drizzle.config.ts", "vite.config.ts",
       "tailwind.config.ts" >>

env_example == ".env.example"
env_validation == "shared/env-validation.ts"

\* every path the program tests with Path.exists()
AllPaths ==
    {required_paths[i] : i \in 1..Len(required_paths)}
        \cup {node_modules, package_json, env_example, env_validation}

\* ------------------------------------------------------- the check catalog
\* fix_mode with the check-only flag ignored
fix_mode_ignores_check_only(a) == a.fix

\* fix_mode = args.fix and not args.check_only
fix_mode(a) == a.fix /\ ~a.check_only

\* run_eslint: the command and its description
run_eslint(fixing) ==
    IF fixing
    THEN [command |-> <<"npx", "eslint", ".", "--ext", ".ts,.tsx,.js,.jsx", "--fix">>,
          description |-> "ESLint with auto-fix"]
    ELSE [command |-> <<"npx", "eslint", ".", "--ext", ".ts,.tsx,.js,.jsx">>,
          description |-> "ESLint check"]

\* run_prettier
run_prettier(fixing) ==
    IF fixing
    THEN [command |-> <<"npx", "prettier", "--write", ".">>,
          description |-> "Prettier format"]
    ELSE [command |-> <<"npx", "prettier", "--check", ".">>,
          description |-> "Prettier check"]

\* run_typescript_check
run_typescript_check ==
    [command |-> <<"npx", "tsc", "--noEmit">>,
     description |-> "TypeScript type check"]

\* run_drizzle_check
run_drizzle_check ==
    [command |-> <<"npx", "drizzle-kit", "check">>,
     description |-> "Drizzle schema check"]

\* run_test_scripts: test_commands
test_commands ==
    << [command |-> <<"npm", "run", "test:auth">>,
        description |-> "Authentication tests"],
       [command |-> <<"npm", "run", "test:crypto">>,
        description |-> "Crypto utility tests"],
       [command |-> <<"npm", "run", "test:csv">>,
        description |-> "CSV processing tests"],
       [command |-> <<"npm", "run", "test:substitution">>,
        description |-> "Variable substitution tests"] >>

TestDescriptions == {test_commands[i].description : i \in 1..Len(test_commands)}

\* ------------------------------------------------------------- run_command
\* What subprocess.run can do with one command: return a completed process,
\* raise TimeoutExpired, or raise another exception (the launch failed).
OkOutcome ==
    [kind |-> "exit", returncode |-> 0, stdout |-> <<"o">>, stderr |-> <<>>]

FaultOutcomes ==
    {[kind |-> "exit", returncode |-> 1, stdout |-> <<>>, stderr |-> <<>>],
     [kind |-> "exit", returncode |-> 2, stdout |-> <<>>, stderr |-> <<"E">>]}
    \cup {[kind |-> "timeout", returncode |-> 0, stdout |-> <<>>, stderr |-> <<>>]}
    \cup {[kind |-> "raise", returncode |-> 0, stdout |-> <<>>,
           stderr |-> <<"[Errno 2] No such file or directory">>]}

\* run_command without the TimeoutExpired clause: the timeout falls to the
\* generic "except Exception" and the result carries str(e), which has no label
run_command_generic_timeout(description, outcome) ==
    IF outcome.kind = "exit"
    THEN [success |-> outcome.returncode = 0,
          returncode |-> outcome.returncode,
          stdout |-> outcome.stdout,
          stderr |-> outcome.stderr,
          description |-> description]
    ELSE [success |-> FALSE,
          returncode |-> -1,
          stdout |-> <<>>,
          stderr |-> IF outcome.kind = "timeout"
                     THEN <<"Command ", "timed out", " after 300 seconds">>
                     ELSE outcome.stderr,
          description |-> description]

\* run_command: the result dict built from what subprocess.run did
run_command(description, outcome) ==
    CASE outcome.kind = "exit" ->
            [success |-> outcome.returncode = 0,
             returncode |-> outcome.returncode,
             stdout |-> outcome.stdout,
             stderr |-> outcome.stderr,
             description |-> description]
      [] outcome.kind = "timeout" ->
            [success |-> FALSE,
             returncode |-> -1,
             stdout |-> <<>>,
             stderr |-> <<"Command ", "timed out", " after 5 minutes: ", description>>,
             description |-> description]
      [] OTHER ->
            [success |-> FALSE,
             returncode |-> -1,
             stdout |-> <<>>,
             stderr |-> outcome.stderr,
             description |-> description]

\* ------------------------------------------------------- other check bodies
\* check_node_modules without the node_modules test
check_node_modules_manifest_only(present) == package_json \in present

\* check_node_modules: TRUE iff package.json and node_modules both exist
check_node_modules(present) == package_json \in present /\ node_modules \in present

\* check_node_modules: the ERROR it logs when it returns False
NodeModulesError(present) ==
    IF package_json \notin present
    THEN <<"package.json not found">>
    ELSE <<"node_modules not found. Run 'npm install' first.">>

\* check_file_structure
check_file_structure(present) ==
    LET missing_paths ==
            SelectSeq(required_paths, LAMBDA path : path \notin present)
    IN  [success |-> Len(missing_paths) = 0,
         missing_paths |-> missing_paths,
         description |-> "File structure check"]

\* check_environment_variables
check_environment_variables(present) ==
    LET checks == [env_example_exists |-> env_example \in present,
                   env_validation_exists |-> env_validation \in present]
    IN  [success |-> \A k \in DOMAIN checks : checks[k],
         checks |-> checks,
         description |-> "Environment configuration check"]

\* --------------------------------------------------------- analyze_results
\* "tests" in check_name, for the names the catalog uses
NameHasTests(check_name) == check_name = "tests"

\* the inner loop over result.items() of the grouped test results
RECURSIVE AnalyzeTests(_, _, _)
AnalyzeTests(acc, group, i) ==
    IF i > Len(test_commands) THEN acc
    ELSE LET test_name == test_commands[i].description IN
         IF test_name \notin DOMAIN group THEN AnalyzeTests(acc, group, i + 1)
         ELSE LET test_result == group[test_name]
                  counted == [acc EXCEPT !.total_checks = @ + 1]
              IN  AnalyzeTests(
                      IF Get(test_result, "success", FALSE)
                      THEN [counted EXCEPT !.successful_checks = @ + 1]
                      ELSE [counted EXCEPT !.errors = Append(@,
                                <<test_name, ": ",
                                  Get(test_result, "description", "Test failed")>>)],
                      group, i + 1)

\* one iteration of the loop over self.results["checks"].items()
AnalyzeEntry(acc, check_name, result) ==
    LET counted == [acc EXCEPT !.total_checks = @ + 1] IN
    IF IsDict(result)
    THEN IF Get(result, "success", FALSE)
         THEN [counted EXCEPT !.successful_checks = @ + 1]
         ELSE LET named == Append(counted.errors,
                      <<check_name, ": ", Get(result, "description", "Check failed")>>)
                  stderr == Get(result, "stderr", <<>>)
              IN  [counted EXCEPT !.errors =
                      IF Truthy(stderr)
                      THEN Append(named,
                               <<"  Details: ">> \o Slice(stderr, StderrSnippetLen)
                                   \o <<"...">>)
                      ELSE named]
    ELSE IF IsDict(result) /\ NameHasTests(check_name)
    THEN AnalyzeTests(counted, result, 1)
    ELSE counted

RECURSIVE AnalyzeLoop(_, _, _)
AnalyzeLoop(acc, checks, i) ==
    IF i > Len(checks) THEN acc
    ELSE AnalyzeLoop(AnalyzeEntry(acc, checks[i].name, checks[i].result),
                     checks, i + 1)

\* Summary with overall_success true as soon as one check succeeded
summary_any_success(total_checks, successful_checks) ==
    [total_checks |-> total_checks,
     successful_checks |-> successful_checks,
     failed_checks |-> total_checks - successful_checks,
     overall_success |-> successful_checks > 0,
     success_rate |-> IF total_checks > 0
                      THEN Fraction(successful_checks * 100, total_checks)
                      ELSE <<0, 1>>]

\* the summary dict
summary(total_checks, successful_checks) ==
    [total_checks |-> total_checks,
     successful_checks |-> successful_checks,
     failed_checks |-> total_checks - successful_checks,
     overall_success |-> successful_checks = total_checks,
     success_rate |-> IF total_checks > 0
                      THEN Fraction(successful_checks * 100, total_checks)
                      ELSE <<0, 1>>]

\* analyze_results: the results dict after the call
analyze_results(res) ==
    LET acc == AnalyzeLoop(
                   [total_checks |-> 0, successful_checks |-> 0, errors |-> <<>>],
                   res.checks, 1)
    IN  [res EXCEPT !.summary = summary(acc.total_checks, acc.successful_checks),
                    !.errors = acc.errors,
                    !.warnings = <<>>]

\* ------------------------------------------------------------------- state
VARIABLES
    args,          \* the parsed command line: fix, check_only, verbose, save_results
    exists,        \* the paths present under root_dir
    pc,            \* where main() is
    fix,           \* LintChecker.fix
    verbose,       \* LintChecker.verbose
    results,       \* LintChecker.results
    test_index,    \* run_test_scripts: position in test_commands
    test_results,  \* run_test_scripts: the local dict being filled
    success,       \* main: the value run_all_checks returned, <<>> before
    spawned,       \* every command handed to subprocess.run, with what it did, in order
    executed,      \* every check run so far, in order
    output,        \* the lines printed, in order
    saved,         \* lint_results.json: <<>> or <<the dict written>>
    exit_code,     \* <<>> while running, <<code>> once the process has exited
    raised,        \* the exception that ended the try block, "none" otherwise
    faults         \* absent paths, plus commands so far that did not end as OkOutcome

vars == <<args, exists, pc, fix, verbose, results, test_index, test_results,
          success, spawned, executed, output, saved, exit_code, raised, faults>>

\* a printed line: its format and the values formatted into it
Line(fmt, values) == [fmt |-> fmt, values |-> values]

\* log: prints when verbose or for ERROR and WARN (the timestamp is left out)
log(out, isVerbose, message, level) ==
    IF isVerbose \/ level \in {"ERROR", "WARN"}
    THEN Append(out, Line("[{timestamp}] {level}: {message}", <<level, message>>))
    ELSE out

\* d[key] = value on an insertion-ordered dict
SetItem(d, key, value) ==
    IF \E i \in 1..Len(d) : d[i].name = key
    THEN [i \in 1..Len(d) |->
             IF d[i].name = key THEN [name |-> key, result |-> value] ELSE d[i]]
    ELSE Append(d, [name |-> key, result |-> value])

\* LintChecker.__init__: self.results
InitialResults ==
    [start_time |-> "time.time()",
     checks |-> <<>>,
     errors |-> <<>>,
     warnings |-> <<>>,
     summary |-> <<>>]

Flags == [fix : BOOLEAN, check_only : BOOLEAN, verbose : BOOLEAN,
          save_results : BOOLEAN]

FileSystems ==
    {AllPaths \ missing :
        missing \in {m \in SUBSET AllPaths : Cardinality(m) <= MaxFaults}}

\* main up to the try block: parse_args, fix_mode, LintChecker(...)
Init ==
    /\ args \in Flags
    /\ exists \in FileSystems
    /\ pc = "run_all_checks"
    /\ fix = fix_mode(args)
    /\ verbose = args.verbose
    /\ results = InitialResults
    /\ test_index = 1
    /\ test_results = <<>>
    /\ success = <<>>
    /\ spawned = <<>>
    /\ executed = <<>>
    /\ output = <<>>
    /\ saved = <<>>
    /\ exit_code = <<>>
    /\ raised = "none"
    /\ faults = Cardinality(AllPaths \ exists)

\* what subprocess.run may do next, within the fault bound
Outcomes == {OkOutcome} \cup (IF faults < MaxFaults THEN FaultOutcomes ELSE {})

FaultCount(outcome) == IF outcome = OkOutcome THEN 0 ELSE 1

\* one call of subprocess.run: the command, its label, and what happened
Spawn(cmd, outcome) ==
    [command |-> cmd.command, description |-> cmd.description, outcome |-> outcome]

\* run_command's log line
RunningLine(out, cmd) ==
    log(out, verbose, <<"Running: ">> \o Join(" ", cmd.command), "INFO")

\* run_all_checks: the log line and the prerequisite check
run_all_checks ==
    /\ pc = "run_all_checks"
    /\ LET started == log(output, verbose,
                          <<"Starting comprehensive code quality check...">>, "INFO")
       IN  IF check_node_modules(exists)
           THEN /\ output' = started
                /\ pc' = "eslint"
                /\ success' = success
           ELSE /\ output' = log(started, verbose, NodeModulesError(exists), "ERROR")
                /\ pc' = "print_summary"
                /\ success' = <<FALSE>>
    /\ UNCHANGED <<args, exists, fix, verbose, results, test_index, test_results,
                   spawned, executed, saved, exit_code, raised, faults>>

\* checks_command that gives up on the remaining checks when the command fails
checks_command_stops_on_failure(here, name, cmd, next) ==
    /\ pc = here
    /\ \E outcome \in Outcomes :
          /\ results' = [results EXCEPT !.checks =
                            SetItem(@, name, run_command(cmd.description, outcome))]
          /\ faults' = faults + FaultCount(outcome)
          /\ spawned' = Append(spawned, Spawn(cmd, outcome))
          /\ pc' = IF run_command(cmd.description, outcome).success
                    THEN next ELSE "analyze"
    /\ executed' = Append(executed, name)
    /\ output' = RunningLine(output, cmd)
    /\ UNCHANGED <<args, exists, fix, verbose, test_index, test_results, success,
                   saved, exit_code, raised>>

\* self.results["checks"][name] = self.run_command(cmd)
checks_command(here, name, cmd, next) ==
    /\ pc = here
    /\ \E outcome \in Outcomes :
          /\ results' = [results EXCEPT !.checks =
                            SetItem(@, name, run_command(cmd.description, outcome))]
          /\ faults' = faults + FaultCount(outcome)
          /\ spawned' = Append(spawned, Spawn(cmd, outcome))
    /\ executed' = Append(executed, name)
    /\ output' = RunningLine(output, cmd)
    /\ pc' = next
    /\ UNCHANGED <<args, exists, fix, verbose, test_index, test_results, success,
                   saved, exit_code, raised>>

checks_eslint == checks_command("eslint", "eslint", run_eslint(fix), "prettier")

checks_prettier == checks_command("prettier", "prettier", run_prettier(fix), "typescript")

checks_typescript == checks_command("typescript", "typescript", run_typescript_check, "drizzle")

checks_drizzle == checks_command("drizzle", "drizzle", run_drizzle_check, "file_structure")

\* self.results["checks"][name] = a check computed from the file system
checks_local(here, name, result, next) ==
    /\ pc = here
    /\ results' = [results EXCEPT !.checks = SetItem(@, name, result)]
    /\ executed' = Append(executed, name)
    /\ pc' = next
    /\ UNCHANGED <<args, exists, fix, verbose, test_index, test_results, success,
                   spawned, output, saved, exit_code, raised, faults>>

checks_file_structure ==
    checks_local("file_structure", "file_structure", check_file_structure(exists),
             "environment")

checks_environment ==
    checks_local("environment", "environment", check_environment_variables(exists),
             "tests")

\* run_test_scripts: one iteration of the loop; after the last one the dict
\* is returned and stored as results["checks"]["tests"]
run_test_scripts ==
    /\ pc = "tests"
    /\ LET cmd == test_commands[test_index] IN
       /\ \E outcome \in Outcomes :
             LET filled == (cmd.description :> run_command(cmd.description, outcome))
                               @@ test_results
             IN  /\ faults' = faults + FaultCount(outcome)
                 /\ spawned' = Append(spawned, Spawn(cmd, outcome))
                 /\ IF test_index < Len(test_commands)
                    THEN /\ test_results' = filled
                         /\ test_index' = test_index + 1
                         /\ pc' = "tests"
                         /\ results' = results
                    ELSE /\ test_results' = filled
                         /\ test_index' = test_index
                         /\ pc' = "analyze"
                         /\ results' = [results EXCEPT !.checks =
                                           SetItem(@, "tests", filled)]
       /\ executed' = Append(executed, cmd.command[3])
       /\ output' = RunningLine(output, cmd)
    /\ UNCHANGED <<args, exists, fix, verbose, success, saved, exit_code, raised>>

\* run_all_checks: analyze_results(), then return summary["overall_success"]
checks_analyze ==
    /\ pc = "analyze"
    /\ results' = analyze_results(results)
    /\ success' = <<results'.summary.overall_success>>
    /\ pc' = "print_summary"
    /\ UNCHANGED <<args, exists, fix, verbose, test_index, test_results, spawned,
                   executed,
                   output, saved, exit_code, raised, faults>>

\* print_summary: the three header lines, printed before the summary is read
SummaryHeader ==
    << Line("\n============", <<>>),
       Line("ORACLE MVP - CODE QUALITY CHECK SUMMARY", <<>>),
       Line("============", <<>>) >>

\* print_summary: the lines printed from summary['total_checks'] on
SummaryBody(res) ==
    LET shown == res.summary IN
    << Line("Total Checks: {}", <<shown.total_checks>>),
       Line("Successful: {}", <<shown.successful_checks>>),
       Line("Failed: {}", <<shown.failed_checks>>),
       Line("Success Rate: {:.1f}%", <<Format1f(shown.success_rate)>>) >>
    \o (IF shown.overall_success
        THEN << Line("\nAll checks passed! Code quality is excellent.", <<>>) >>
        ELSE << Line("\n{} check(s) failed.", <<shown.failed_checks>>) >>
             \o (IF Len(res.errors) > 0
                 THEN << Line("\nErrors:", <<>>) >>
                      \o [i \in 1..Len(res.errors) |->
                             Line("  * {}", <<res.errors[i]>>)]
                 ELSE <<>>))
    \o << Line("\nDuration: {:.2f} seconds", <<>>),
          Line("============", <<>>) >>

\* main: the two except clauses
ExceptClause(out, exception, message) ==
    IF exception = "KeyboardInterrupt"
    THEN Append(out, Line("\n\nLinting interrupted by user", <<>>))
    ELSE LET told == Append(out, Line("\n\nUnexpected error: {}", <<message>>))
         IN  IF args.verbose
             THEN Append(told, Line("traceback.print_exc()", <<>>))
             ELSE told

\* ExitCode that reports success whatever the checks did
exit_code_always_zero(ok) == 0

\* main: the exit code after print_summary and save_results
ExitCode(ok) == IF ok THEN 0 ELSE 1

\* checker.print_summary(); summary['total_checks'] raises KeyError on the
\* empty summary dict, which main's "except Exception" catches
print_summary ==
    /\ pc = "print_summary"
    /\ IF "total_checks" \in DOMAIN results.summary
       THEN /\ output' = output \o SummaryHeader \o SummaryBody(results)
            /\ pc' = IF args.save_results THEN "save_results" ELSE "exit"
            /\ UNCHANGED <<exit_code, raised>>
       ELSE /\ output' = ExceptClause(output \o SummaryHeader, "KeyError",
                                      <<"'total_checks'">>)
            /\ raised' = "KeyError"
            /\ exit_code' = <<1>>
            /\ pc' = "done"
    /\ UNCHANGED <<args, exists, fix, verbose, results, test_index, test_results,
                   success, spawned, executed, saved, faults>>

\* save_results: the copy with start_time as text, written to lint_results.json
save_results ==
    /\ pc = "save_results"
    /\ saved' = <<[results EXCEPT !.start_time = <<"str", @>>]>>
    /\ output' = log(output, verbose,
                     <<"Detailed results saved to: ", "lint_results.json">>, "INFO")
    /\ pc' = "exit"
    /\ UNCHANGED <<args, exists, fix, verbose, results, test_index, test_results,
                   success, spawned, executed, exit_code, raised, faults>>

\* sys.exit(0 if success else 1)
sys_exit ==
    /\ pc = "exit"
    /\ exit_code' = <<ExitCode(success[1])>>
    /\ pc' = "done"
    /\ UNCHANGED <<args, exists, fix, verbose, results, test_index, test_results,
                   success, spawned, executed, output, saved, raised, faults>>

\* an exception reaches main's try block from outside the program's own
\* logic: the handler prints its message and exits with 1
Caught(exception, message) ==
    /\ raised' = exception
    /\ output' = ExceptClause(output, exception, message)
    /\ exit_code' = <<1>>
    /\ pc' = "done"
    /\ UNCHANGED <<args, exists, fix, verbose, results, test_index, test_results,
                   success, spawned, executed, saved, faults>>

\* Ctrl-C at any point of the try block
KeyboardInterrupt ==
    /\ pc # "done"
    /\ Caught("KeyboardInterrupt", <<>>)

\* any other exception out of a call made in the try block (an OSError from
\* print, Path.exists or open, a MemoryError); sys.exit itself raises none
UnexpectedError ==
    /\ pc \notin {"exit", "done"}
    /\ Caught("Exception", <<"str(e)">>)

Next ==
    \/ run_all_checks
    \/ checks_eslint
    \/ checks_prettier
    \/ checks_typescript
    \/ checks_drizzle
    \/ checks_file_structure
    \/ checks_environment
    \/ run_test_scripts
    \/ checks_analyze
    \/ print_summary
    \/ save_results
    \/ sys_exit
    \/ KeyboardInterrupt
    \/ UnexpectedError

Spec == Init /\ [][Next]_vars

\* ------------------------------------------- analyze_results on any mapping
\* names for the entries of a checks mapping handed to analyze_results alone
CheckNames ==
    <<"eslint", "prettier", "typescript", "drizzle", "file_structure", "environment">>

\* a mapping of n plain results, with or without a grouped "tests" entry
Mappings(n) ==
    LET plain(f) == [i \in 1..n |->
                        [name |-> CheckNames[i],
                         result |-> run_command(CheckNames[i], f[i])]]
        group(g) == [d \in TestDescriptions |-> run_command(d, g[d])]
    IN  {plain(f) : f \in [1..n -> {OkOutcome} \cup FaultOutcomes]}
        \cup {Append(plain(f), [name |-> "tests", result |-> group(g)]) :
                 f \in [1..n -> {OkOutcome} \cup FaultOutcomes],
                 g \in [TestDescriptions -> {OkOutcome, CHOOSE o \in FaultOutcomes :
                                                            o.kind = "timeout"}]}

\* a checker whose checks mapping is any mapping of at most MaxChecks plain
\* entries, about to run analyze_results
InitAnalyze ==
    /\ args \in {a \in Flags : ~a.fix /\ ~a.check_only /\ ~a.verbose}
    /\ exists = AllPaths
    /\ pc = "analyze"
    /\ fix = fix_mode(args)
    /\ verbose = args.verbose
    /\ \E n \in 0..Min(MaxChecks, Len(CheckNames)) :
          \E checks \in Mappings(n) :
             results = [InitialResults EXCEPT !.checks = checks]
    /\ test_index = 1
    /\ test_results = <<>>
    /\ success = <<>>
    /\ spawned = <<>>
    /\ executed = <<>>
    /\ output = <<>>
    /\ saved = <<>>
    /\ exit_code = <<>>
    /\ raised = "none"
    /\ faults = 0

NextAnalyze ==
    \/ checks_analyze
    \/ print_summary
    \/ save_results
    \/ sys_exit

SpecAnalyze == InitAnalyze /\ [][NextAnalyze]_vars

\* ------------------------------------------------------------- properties
\* main reached sys.exit(0 if success else 1): no exception ended the run
Completed == pc = "done" /\ raised = "none"

\* the run was ended from outside the program's logic: Ctrl-C, or an
\* exception out of the runtime
Interrupted == raised \in {"KeyboardInterrupt", "Exception"}

\* analyze_results has written the summary
SummaryComputed == "total_checks" \in DOMAIN results.summary

\* some line of results["errors"] carries the label
ErrorNames(label) ==
    \E i \in 1..Len(results.errors) : Contains(results.errors[i], label)

\* some printed line has the format
Printed(fmt) == \E i \in 1..Len(output) : output[i].fmt = fmt

IsPrefix(a, b) == Len(a) <= Len(b) /\ \A i \in 1..Len(a) : a[i] = b[i]

\* the catalog in the order the specification gives it
CatalogOrder ==
    << "eslint", "prettier", "typescript", "drizzle", "file_structure",
       "environment", "test:auth", "test:crypto", "test:csv",
       "test:substitution" >>

\* the argument vectors of a check-only run, in order
CheckOnlyCommands ==
    << <<"npx", "eslint", ".", "--ext", ".ts,.tsx,.js,.jsx">>,
       <<"npx", "prettier", "--check", ".">>,
       <<"npx", "tsc", "--noEmit">>,
       <<"npx", "drizzle-kit", "check">>,
       <<"npm", "run", "test:auth">>,
       <<"npm", "run", "test:crypto">>,
       <<"npm", "run", "test:csv">>,
       <<"npm", "run", "test:substitution">> >>

\* the argument vectors of the lint and format commands in a fixing run
FixCommands ==
    << <<"npx", "eslint", ".", "--ext", ".ts,.tsx,.js,.jsx", "--fix">>,
       <<"npx", "prettier", "--write", ".">> >>

SpawnedCommands == [i \in 1..Len(spawned) |-> spawned[i].command]

\* every check of a full run succeeded, each test command included
AllChecksSucceeded ==
    /\ Len(executed) = Len(CatalogOrder)
    /\ \A i \in 1..Len(results.checks) :
          LET entry == results.checks[i] IN
          IF entry.name = "tests"
          THEN \A d \in DOMAIN entry.result : entry.result[d].success
          ELSE entry.result.success

\* C1: when the prerequisites are there and every check succeeds, the summary
\* has overall_success true and the process exits with code 0.
C1_AllPassExitsZero ==
    /\ (SummaryComputed /\ AllChecksSucceeded) => results.summary.overall_success
    /\ (Completed /\ AllChecksSucceeded) => exit_code = <<0>>

\* C2: in a run that is not interrupted, every command that returned a
\* non-zero exit code makes overall_success false, has its own label on a line
\* of the errors list, and the process exits with code 1.
C2_FailureIsNamed ==
    Completed =>
        \A i \in 1..Len(spawned) :
            (spawned[i].outcome.kind = "exit" /\ spawned[i].outcome.returncode # 0)
                => /\ ~results.summary.overall_success
                   /\ ErrorNames(spawned[i].description)
                   /\ exit_code = <<1>>

\* the flattened number of checks: one per plain entry, one per test command
FlatCount ==
    LET groups == {i \in 1..Len(results.checks) : results.checks[i].name = "tests"}
    IN  Cardinality({i \in 1..Len(results.checks) : i \notin groups})
        + (IF groups = {} THEN 0
           ELSE Cardinality(DOMAIN results.checks[CHOOSE i \in groups : TRUE].result))

\* C3: after analyze_results, total_checks is the flattened number of checks:
\* each plain entry counts once and the test batch once per test command.
C3_TotalIsFlatCount ==
    SummaryComputed => results.summary.total_checks = FlatCount

\* C4: when package.json or node_modules is missing, no command is spawned, no
\* check entry is recorded, the run goes straight from the prerequisite check
\* to its end, and the process exits with code 1.
C4_MissingPrerequisiteAborts ==
    (package_json \notin exists \/ node_modules \notin exists) =>
        /\ spawned = <<>>
        /\ executed = <<>>
        /\ results.checks = <<>>
        /\ pc \in {"run_all_checks", "print_summary", "done"}
        /\ pc = "done" => exit_code = <<1>>

\* C4 witness: the manifest is there, only node_modules is missing, nobody
\* interrupted, and the process has exited with code 1 with no entry recorded.
C4_Witness ==
    /\ pc = "done"
    /\ package_json \in exists
    /\ node_modules \notin exists
    /\ ~Interrupted
    /\ exit_code = <<1>>
    /\ results.checks = <<>>

\* C5: a run that reaches the end of main exits with 0 iff overall_success and
\* with 1 otherwise; a run ended by a keyboard interrupt or another exception
\* exits with 1, and the interrupt prints its own message, never the
\* unexpected-error one.
C5_ExitCode ==
    /\ pc # "done" => exit_code = <<>>
    /\ pc = "done" => exit_code \in {<<0>>, <<1>>}
    /\ Completed => ((exit_code = <<0>>) <=> results.summary.overall_success)
    /\ (pc = "done" /\ raised # "none") => exit_code = <<1>>
    /\ raised = "KeyboardInterrupt" =>
          /\ output[Len(output)].fmt = "\n\nLinting interrupted by user"
          /\ ~Printed("\n\nUnexpected error: {}")
    /\ raised \notin {"none", "KeyboardInterrupt"} =>
          /\ Printed("\n\nUnexpected error: {}")
          /\ ~Printed("\n\nLinting interrupted by user")

\* C5 witness: Ctrl-C while the third command had just run; exit code 1.
C5_Witness ==
    /\ pc = "done"
    /\ raised = "KeyboardInterrupt"
    /\ Len(spawned) = 3
    /\ exit_code = <<1>>

\* C6: the checks run one after another in the catalog's order, each once,
\* whatever the earlier ones did; the summary is computed only after all ten,
\* and a run that is not interrupted and has its prerequisites runs all ten.
C6_EveryCheckOnceInOrder ==
    /\ IsPrefix(executed, CatalogOrder)
    /\ SummaryComputed => executed = CatalogOrder
    /\ pc \in {"analyze", "print_summary", "save_results", "exit"}
          /\ package_json \in exists /\ node_modules \in exists
          => executed = CatalogOrder
    /\ pc = "done" /\ ~Interrupted /\ package_json \in exists /\ node_modules \in exists
          => executed = CatalogOrder

\* C6 witness: the first command timed out, a test command returned non-zero,
\* and the run still executed the whole catalog and finished.
C6_Witness ==
    /\ Completed
    /\ executed = CatalogOrder
    /\ spawned[1].outcome.kind = "timeout"
    /\ spawned[6].outcome.kind = "exit"
    /\ spawned[6].outcome.returncode # 0

\* the result run_command returned for the i-th spawned command
ResultOf(i) ==
    IF i <= 4 THEN results.checks[i].result
    ELSE test_results[spawned[i].description]

\* C7: run_command turns every outcome of a command into a result: a normal
\* exit gives success iff the code is 0 and carries the code; a timeout gives
\* success false, -1 and a message with the label and "timed out"; a launch
\* failure gives success false, -1 and the error text; the run goes on after.
C7_RunCommandClassifies ==
    /\ \A i \in 1..Len(spawned) :
          LET outcome == spawned[i].outcome
              result == ResultOf(i)
          IN  /\ result.description = spawned[i].description
              /\ outcome.kind = "exit" =>
                    /\ result.success <=> (outcome.returncode = 0)
                    /\ result.returncode = outcome.returncode
                    /\ result.stdout = outcome.stdout
                    /\ result.stderr = outcome.stderr
              /\ outcome.kind = "timeout" =>
                    /\ ~result.success
                    /\ result.returncode = -1
                    /\ Contains(result.stderr, spawned[i].description)
                    /\ Contains(result.stderr, "timed out")
              /\ outcome.kind = "raise" =>
                    /\ ~result.success
                    /\ result.returncode = -1
                    /\ result.stderr = outcome.stderr
    /\ raised \notin {"none", "KeyboardInterrupt", "Exception"} => spawned = <<>>
    /\ Completed => Len(spawned) = Len(CheckOnlyCommands)

\* C7 witness: the second command timed out, a later one could not be
\* launched, and all eight commands were run.
C7_Witness ==
    /\ Completed
    /\ Len(spawned) = Len(CheckOnlyCommands)
    /\ spawned[2].outcome.kind = "timeout"
    /\ spawned[7].outcome.kind = "raise"

\* the summary's arithmetic
C8_Arithmetic ==
    SummaryComputed =>
        LET s == results.summary
            total == s.total_checks
            good == s.successful_checks
        IN  /\ total = good + s.failed_checks
            /\ s.overall_success <=> (s.failed_checks = 0)
            /\ s.success_rate[2] > 0
            /\ s.success_rate[1] * total = good * 100 * s.success_rate[2]
            /\ total = 0 => s.success_rate = <<0, 1>>
            /\ (good = 3 /\ total = 4) => s.success_rate = <<75, 1>>

\* C8: for every mapping of check results, total = successful + failed,
\* overall_success iff failed = 0, success_rate = successful / total * 100 (0
\* for no checks; 75 for 3 of 4); only analyze_results writes the summary.
C8_SummaryInvariant ==
    /\ []C8_Arithmetic
    /\ [][pc # "analyze" => results'.summary = results.summary]_vars

\* C8 witness: 3 of 4 checks succeeded, the rate is 75 and was printed as
\* 75.0, and the report has been saved.
C8_Witness ==
    /\ pc = "done"
    /\ SummaryComputed
    /\ results.summary.total_checks = 4
    /\ results.summary.successful_checks = 3
    /\ results.summary.success_rate = <<75, 1>>
    /\ \E i \in 1..Len(output) :
          /\ output[i].fmt = "Success Rate: {:.1f}%"
          /\ output[i].values = << <<75, 0>> >>
    /\ Len(saved) = 1

\* C9: with --check-only the commands are those of a check-only run, --fix or
\* not; and whatever the flags, only the lint and format commands' arguments
\* vary, never which checks run or their order.
C9_CheckOnlyOverridesFix ==
    /\ args.check_only => IsPrefix(SpawnedCommands, CheckOnlyCommands)
    /\ Len(spawned) <= Len(CheckOnlyCommands)
    /\ \A i \in 1..Len(spawned) :
          IF i <= Len(FixCommands)
          THEN spawned[i].command =
                   IF args.fix /\ ~args.check_only
                   THEN FixCommands[i] ELSE CheckOnlyCommands[i]
          ELSE spawned[i].command = CheckOnlyCommands[i]
    /\ \A i \in 1..Len(executed) : executed[i] = CatalogOrder[i]

\* C9 witness: a complete run with both --check-only and --fix.
C9_Witness ==
    /\ Completed
    /\ args.fix
    /\ args.check_only
    /\ Len(spawned) = Len(CheckOnlyCommands)

\* C10: every run that is not interrupted, one aborted by a missing
\* prerequisite included, computes the summary before reading it and prints
\* the whole summary; with --save-results it also writes the report file.
C10_SummaryAlwaysPrinted ==
    (pc = "done" /\ ~Interrupted) =>
        /\ SummaryComputed
        /\ Printed("Total Checks: {}")
        /\ Printed("\nDuration: {:.2f} seconds")
        /\ ~Printed("\n\nUnexpected error: {}")
        /\ args.save_results => Len(saved) = 1

====
